---- MODULE Spec2Model ----
(***************************************************************************)
(* Model of the emotion-music backend: EmotionFusion.late_fusion           *)
(* (backend/models/fusion.py), SpotifyHandler (backend/spotify_handler.py) *)
(* and the /recommend route of backend/main.py, and the probability        *)
(* vectors of the three detectors under backend/models.                    *)
(*                                                                         *)
(* Numbers: valence and energy are held in tenths (0.6 is 6); fusion       *)
(* probabilities and weights are exact rationals [num, den].               *)
(***************************************************************************)
EXTENDS Integers, Sequences, FiniteSets, TLC

VARIABLES
    playlist_df,     \* SpotifyHandler.playlist_df: None or a DataFrame (sequence of rows)
    sp,              \* SpotifyHandler.sp: is the Spotify client initialised
    rec_call,        \* the /recommend request just served and what it returned
    fetch_call,      \* the fetch_and_cache_playlist call just made and what it returned
    stats_call,      \* the get_playlist_stats call just made and what it returned
    reader,          \* a recommend_by_emotion call running on its own thread
    fusion_in,       \* arguments of the late_fusion call
    fusion_out,      \* value returned by the late_fusion call
    default_weights, \* EmotionFusion.default_weights, in tenths
    detect_call,     \* a detector call: its input and the vector it returned
    loaded,          \* main.py globals: which components load_models has set
    http_call        \* the HTTP request just served: what the handler raised, what was sent

vars == <<playlist_df, sp, rec_call, fetch_call, stats_call, reader,
          fusion_in, fusion_out, default_weights, detect_call, loaded, http_call>>

(***************************************************************************)
(* Bounds                                                                  *)
(***************************************************************************)
MaxTracks == 3      \* longest snapshot
ProbUnits == 5      \* input probabilities are multiples of 1/ProbUnits

(***************************************************************************)
(* Python values                                                           *)
(***************************************************************************)
None == "None"      \* Python None where the other values are strings
NaN == -1           \* a missing cell of the DataFrame (every comparison with it is False)

\* The set of elements of a sequence.
Range(s) == {s[i] : i \in 1..Len(s)}

(***************************************************************************)
(* spotify_handler.py                                                      *)
(***************************************************************************)
\* fusion.py:10
CANONICAL_EMOTIONS == <<"happy", "sad", "angry", "calm", "neutral", "excited">>

\* spotify_handler.py:17-24, in tenths
EMOTION_CRITERIA ==
    [happy   |-> [valence |-> <<6, 10>>, energy |-> <<5, 10>>],
     sad     |-> [valence |-> <<0, 4>>,  energy |-> <<0, 6>>],
     angry   |-> [valence |-> <<0, 5>>,  energy |-> <<6, 10>>],
     calm    |-> [valence |-> <<4, 10>>, energy |-> <<0, 4>>],
     neutral |-> [valence |-> <<3, 7>>,  energy |-> <<3, 7>>],
     excited |-> [valence |-> <<5, 10>>, energy |-> <<7, 10>>]]

\* Mutant of CriteriaFor: an unknown label is filtered as 'happy'.
CriteriaForDefaultHappy(emotion) ==
    IF emotion \in DOMAIN EMOTION_CRITERIA THEN EMOTION_CRITERIA[emotion]
    ELSE EMOTION_CRITERIA["happy"]

\* EMOTION_CRITERIA.get(emotion, EMOTION_CRITERIA['neutral'])
CriteriaFor(emotion) ==
    IF emotion \in DOMAIN EMOTION_CRITERIA THEN EMOTION_CRITERIA[emotion]
    ELSE EMOTION_CRITERIA["neutral"]

\* Mutant of InRange: a missing cell is compared as 0.
InRangeMissingAsZero(x, range) ==
    (IF x = NaN THEN 0 ELSE x) >= range[1] /\ (IF x = NaN THEN 0 ELSE x) <= range[2]

\* Mutant of InRange: the upper end of the range is not checked.
InRangeLowerOnly(x, range) == x # NaN /\ x >= range[1]

\* (df[feature] >= min_val) & (df[feature] <= max_val) for one cell
InRange(x, range) == x # NaN /\ x >= range[1] /\ x <= range[2]

\* the row mask built by the loop over criteria.items()
MatchesCriteria(row, criteria) ==
    /\ InRange(row.valence, criteria.valence)
    /\ InRange(row.energy, criteria.energy)

\* a DataFrame and the None that playlist_df holds before any load
DataFrame(rows) == [is_none |-> FALSE, rows |-> rows]
NoneDF == [is_none |-> TRUE, rows |-> <<>>]

\* Tracks the remote playlist or the cache file can hold.
TrackUniverse ==
    << [track_id |-> "A", valence |-> 8,   energy |-> 8, tempo |-> 120, duration_ms |-> 180000],
       [track_id |-> "B", valence |-> 1,   energy |-> 1, tempo |-> 120, duration_ms |-> 200000],
       [track_id |-> "C", valence |-> 5,   energy |-> 5, tempo |-> 120, duration_ms |-> 240000],
       [track_id |-> "D", valence |-> 6,   energy |-> 5, tempo |-> 120, duration_ms |-> 180000],
       [track_id |-> "E", valence |-> NaN, energy |-> 8, tempo |-> 120, duration_ms |-> 200000] >>

TrackIds == {TrackUniverse[i].track_id : i \in 1..Len(TrackUniverse)}

\* Snapshots: the sub-sequences of TrackUniverse of at most MaxTracks rows.
Snapshots ==
    {SelectSeq(TrackUniverse, LAMBDA r : r.track_id \in ids) :
        ids \in {s \in SUBSET TrackIds : Cardinality(s) <= MaxTracks}}

\* playlist_df after SpotifyHandler.__init__: None (no cache, no fetch), the
\* cache file's rows, or what the start-up fetch stored.
InitialFrames == {NoneDF} \cup {DataFrame(rows) : rows \in Snapshots}

\* The dict recommend_by_emotion builds from the sampled row, and its None.
Song(row) == [is_none |-> FALSE, song_id |-> row.track_id,
              valence |-> row.valence, energy |-> row.energy]
NoneSong == [is_none |-> TRUE, song_id |-> None, valence |-> NaN, energy |-> NaN]

\* `if current_song_id:` is False for None and for the empty string
Truthy(current_song_id) == current_song_id # None /\ current_song_id # ""

\* lines 232-239: df[mask] keeps, in order, the rows inside both ranges
FilterByCriteria(rows, criteria) ==
    SelectSeq(rows, LAMBDA r : MatchesCriteria(r, criteria))

\* lines 241-243: drop the current song from the filtered rows
ExcludeCurrent(rows, current_song_id) ==
    IF Truthy(current_song_id)
    THEN SelectSeq(rows, LAMBDA r : r.track_id # current_song_id)
    ELSE rows

\* line 248: the rows the fallback samples from
FallbackRows(df_rows, current_song_id) == df_rows

\* Mutant of FallbackLog: the fallback is taken without a word.
FallbackLogSilent(taken) == {}

\* line 247: what the fallback branch logs
FallbackWarning == "No songs found for emotion. Falling back to random song."
FallbackLog(taken) == IF taken THEN {FallbackWarning} ELSE {}

\* SpotifyHandler.recommend_by_emotion: every (returned value, log) the call
\* can produce; sample(n=1) may pick any row, and raises on an empty frame.
recommend_by_emotion(df, emotion, current_song_id) ==
    IF df.is_none \/ Len(df.rows) = 0
    THEN {[song |-> NoneSong, log |-> {"Playlist not loaded"}]}
    ELSE LET criteria == CriteriaFor(emotion)
             filtered == ExcludeCurrent(FilterByCriteria(df.rows, criteria),
                                        current_song_id)
             fallback == Len(filtered) = 0
             final    == IF fallback THEN FallbackRows(df.rows, current_song_id)
                         ELSE filtered
         IN  IF Len(final) = 0
             THEN {[song |-> NoneSong,
                    log  |-> FallbackLog(fallback) \cup {"Recommendation error"}]}
             ELSE {[song |-> Song(final[i]), log |-> FallbackLog(fallback)] :
                      i \in 1..Len(final)}

\* Mutant of RecommendStatus: a None is sent back as a successful answer.
RecommendStatusAlwaysOk(song) == 200

\* main.py recommend_song: 404 when the handler returned None, else the song
RecommendStatus(song) == IF song.is_none THEN 404 ELSE 200

(***************************************************************************)
(* SpotifyHandler.get_playlist_stats                                       *)
(***************************************************************************)
\* Series.sum(): the cells that are present, added up
RECURSIVE SumColumn(_, _)
SumColumn(rows, column) ==
    IF rows = <<>> THEN 0
    ELSE (IF Head(rows)[column] = NaN THEN 0 ELSE Head(rows)[column])
         + SumColumn(Tail(rows), column)

\* Series.mean(): sum over count of the cells that are present, as the
\* fraction sum/count (0/0, a nan, when no cell is present)
Mean(rows, column) ==
    [num |-> SumColumn(rows, column),
     den |-> Len(SelectSeq(rows, LAMBDA r : r[column] # NaN))]

\* line 282 and round(total_duration_hours, 2), in hundredths of an hour
\* (36000 ms); no sum of the durations of TrackUniverse falls on a tie
DurationHours(rows) == (SumColumn(rows, "duration_ms") + 18000) \div 36000

\* Mutant of MoodCount: a row is counted under its first matching label only.
MoodCountExclusive(rows, emotion) ==
    Len(SelectSeq(rows, LAMBDA r :
        /\ MatchesCriteria(r, EMOTION_CRITERIA[emotion])
        /\ \A i, j \in 1..Len(CANONICAL_EMOTIONS) :
              (CANONICAL_EMOTIONS[j] = emotion /\ i < j) =>
                  ~MatchesCriteria(r, EMOTION_CRITERIA[CANONICAL_EMOTIONS[i]])))

\* lines 286-294 for one label: len(filtered) after both range filters
MoodCount(rows, emotion) == Len(FilterByCriteria(rows, EMOTION_CRITERIA[emotion]))

\* lines 273-280: the dict returned when nothing is loaded
EmptyStats ==
    [total_songs |-> 0, total_duration_hours |-> 0,
     average_valence |-> [num |-> 0, den |-> 1],
     average_energy |-> [num |-> 0, den |-> 1],
     cached |-> FALSE]

\* SpotifyHandler.get_playlist_stats
get_playlist_stats(df) ==
    IF df.is_none \/ Len(df.rows) = 0
    THEN EmptyStats
    ELSE [total_songs |-> Len(df.rows),
          total_duration_hours |-> DurationHours(df.rows),
          average_valence |-> Mean(df.rows, "valence"),
          average_energy |-> Mean(df.rows, "energy"),
          average_tempo |-> Mean(df.rows, "tempo"),
          mood_distribution |->
              [e \in DOMAIN EMOTION_CRITERIA |-> MoodCount(df.rows, e)],
          cached |-> TRUE]

(***************************************************************************)
(* Requests; only the latest call is remembered, so rec_call and           *)
(* stats_call were computed from the playlist_df of the same state         *)
(***************************************************************************)
Emotions == Range(CANONICAL_EMOTIONS)
RequestEmotions == Emotions \cup {"surprised"}
RequestSongIds == {None, ""} \cup TrackIds

NoRecommend == [called |-> FALSE, emotion |-> "neutral", current_song_id |-> None,
                song |-> NoneSong, log |-> {}, status |-> 0]
NoFetch == [called |-> FALSE, status |-> "none", before |-> NoneDF]
NoStats == [called |-> FALSE, result |-> EmptyStats]
IdleReader == [pc |-> "idle", emotion |-> "neutral", current_song_id |-> None,
               filtered_df |-> <<>>, reads |-> <<>>, song |-> NoneSong, log |-> {}]

\* Mutant of SnapshotAfterRead: the filtered rows are stored in the handler.
SnapshotAfterReadInPlace(df, filtered) ==
    IF df.is_none THEN df ELSE [is_none |-> FALSE, rows |-> filtered]

\* self.playlist_df after a read: lines 233-251 and 282-294 filter a copy and
\* rebind the local name only; the attribute is not assigned
SnapshotAfterRead(df, filtered) == df

\* POST /recommend (main.py recommend_song calling recommend_by_emotion once)
RecommendSong(emotion, current_song_id) ==
    /\ \E out \in recommend_by_emotion(playlist_df, emotion, current_song_id) :
          rec_call' = [called |-> TRUE, emotion |-> emotion,
                       current_song_id |-> current_song_id,
                       song |-> out.song, log |-> out.log,
                       status |-> RecommendStatus(out.song)]
    /\ playlist_df' = SnapshotAfterRead(playlist_df,
                          FilterByCriteria(playlist_df.rows, CriteriaFor(emotion)))
    /\ fetch_call' = NoFetch
    /\ stats_call' = NoStats
    /\ UNCHANGED <<sp, reader, fusion_in, fusion_out, default_weights, detect_call,
                   loaded, http_call>>

\* GET /playlist/stats (main.py get_playlist_stats calling the handler once)
GetPlaylistStats ==
    /\ stats_call' = [called |-> TRUE, result |-> get_playlist_stats(playlist_df)]
    /\ playlist_df' = SnapshotAfterRead(playlist_df,
                          FilterByCriteria(playlist_df.rows, EMOTION_CRITERIA["excited"]))
    /\ rec_call' = NoRecommend
    /\ fetch_call' = NoFetch
    /\ UNCHANGED <<sp, reader, fusion_in, fusion_out, default_weights, detect_call,
                   loaded, http_call>>

\* SpotifyHandler.fetch_and_cache_playlist, with the outcome of the remote
\* calls and of the cache write chosen by the environment.
FetchAndCachePlaylist(rows, outcome) ==
    /\ fetch_call' = [called |-> TRUE, before |-> playlist_df,
                      status |-> IF sp /\ outcome = "ok" /\ Len(rows) > 0
                                 THEN "success" ELSE "error"]
    /\ playlist_df' = IF sp /\ outcome \in {"ok", "write_error"}
                      THEN DataFrame(rows) ELSE playlist_df
    /\ rec_call' = NoRecommend
    /\ stats_call' = NoStats
    /\ UNCHANGED <<sp, reader, fusion_in, fusion_out, default_weights, detect_call,
                   loaded, http_call>>

(***************************************************************************)
(* recommend_by_emotion called on a thread of its own while another thread *)
(* runs fetch_and_cache_playlist: one step for each statement that reads   *)
(* self.playlist_df (lines 225, 233 and 248)                               *)
(***************************************************************************)
\* line 225: `if self.playlist_df is None or len(self.playlist_df) == 0`
ReaderCheck(emotion, current_song_id) ==
    /\ reader.pc \in {"idle", "done"}
    /\ reader' = [pc |-> IF playlist_df.is_none \/ Len(playlist_df.rows) = 0
                         THEN "done" ELSE "filter",
                  emotion |-> emotion, current_song_id |-> current_song_id,
                  filtered_df |-> <<>>, reads |-> <<playlist_df>>,
                  song |-> NoneSong,
                  log |-> IF playlist_df.is_none \/ Len(playlist_df.rows) = 0
                          THEN {"Playlist not loaded"} ELSE {}]
    /\ UNCHANGED <<playlist_df, sp, rec_call, fetch_call, stats_call,
                   fusion_in, fusion_out, default_weights, detect_call,
                   loaded, http_call>>

\* lines 229-243: copy self.playlist_df, filter the copy, drop the current song
ReaderFilter ==
    /\ reader.pc = "filter"
    /\ reader' = [reader EXCEPT
                    !.pc = "pick",
                    !.filtered_df =
                        ExcludeCurrent(FilterByCriteria(playlist_df.rows,
                                                        CriteriaFor(reader.emotion)),
                                       reader.current_song_id),
                    !.reads = Append(@, playlist_df)]
    /\ UNCHANGED <<playlist_df, sp, rec_call, fetch_call, stats_call,
                   fusion_in, fusion_out, default_weights, detect_call,
                   loaded, http_call>>

\* lines 245-266: fall back to self.playlist_df when nothing is left, sample
ReaderPick ==
    /\ reader.pc = "pick"
    /\ LET fallback == Len(reader.filtered_df) = 0
           final == IF fallback
                    THEN FallbackRows(playlist_df.rows, reader.current_song_id)
                    ELSE reader.filtered_df
           reads == IF fallback THEN Append(reader.reads, playlist_df)
                    ELSE reader.reads
       IN  IF Len(final) = 0
           THEN reader' = [reader EXCEPT
                             !.pc = "done", !.reads = reads, !.song = NoneSong,
                             !.log = FallbackLog(fallback) \cup {"Recommendation error"}]
           ELSE \E i \in 1..Len(final) :
                   reader' = [reader EXCEPT
                                !.pc = "done", !.reads = reads,
                                !.song = Song(final[i]),
                                !.log = FallbackLog(fallback)]
    /\ UNCHANGED <<playlist_df, sp, rec_call, fetch_call, stats_call,
                   fusion_in, fusion_out, default_weights, detect_call,
                   loaded, http_call>>

(***************************************************************************)
(* models/fusion.py                                                        *)
(***************************************************************************)
\* Exact rationals num/den, den > 0, for the floats of the fusion; compare
\* them with RatEq and RatLess, since 1/2 and 2/4 are different records.
Rat(n, d) == [num |-> n, den |-> d]
RatAdd(a, b) ==
    IF a.den = b.den THEN Rat(a.num + b.num, a.den)
    ELSE Rat(a.num * b.den + b.num * a.den, a.den * b.den)
RatMul(a, b) == Rat(a.num * b.num, a.den * b.den)
RatEq(a, b) == a.num * b.den = b.num * a.den
RatLess(a, b) == a.num * b.den < b.num * a.den

\* the order of the three `if` blocks, lines 39-52
MODALITIES == <<"face", "speech", "text">>

\* the value __init__ gives self.default_weights, lines 16-20, in tenths
InitialDefaultWeights == [face |-> 4, speech |-> 3, text |-> 3]

\* the literals of weights.get(name, literal), lines 42, 47, 52, in tenths
GetDefault == [face |-> 4, speech |-> 3, text |-> 3]

\* A modality result: None, a dict without 'probabilities', or a dict with a
\* probability vector (units of 1/ProbUnits per label).
NoneResult == [kind |-> "none"]
NoProbsResult == [kind |-> "noprobs"]
ProbsResult(v) == [kind |-> "probs", probabilities |-> v]

\* `if result and 'probabilities' in result`
Usable(result) == result.kind = "probs"

\* lines 31-32: weights, or a copy of the defaults when None
EffectiveWeights(weights) == IF weights.is_none THEN default_weights ELSE weights.map

\* Mutant of WeightOf: a modality missing from the mapping weighs nothing.
WeightOfSuppliedOnly(weights, name) ==
    IF name \in DOMAIN weights THEN weights[name] ELSE 0

\* weights.get(name, literal)
WeightOf(weights, name) ==
    IF name \in DOMAIN weights THEN weights[name] ELSE GetDefault[name]

\* lines 34-52: the modalities collected, in the order of the code
AvailableModalities(results) ==
    SelectSeq(MODALITIES, LAMBDA m : Usable(results[m]))

\* Mutant of SumWeights: absent modalities keep their share of the total.
SumWeightsAll(names, weights) ==
    WeightOf(weights, "face") + WeightOf(weights, "speech") + WeightOf(weights, "text")

\* sum(modality_weights), line 58
RECURSIVE SumWeights(_, _)
SumWeights(names, weights) ==
    IF names = <<>> THEN 0
    ELSE WeightOf(weights, Head(names)) + SumWeights(Tail(names), weights)

\* Mutant of NormalizedWeight: the weights are used as given (tenths).
NormalizedWeightRaw(w, total_weight) == Rat(w, 10)

\* line 59: w / total_weight for one modality
NormalizedWeight(w, total_weight) == Rat(w, total_weight)

\* lines 62-66 for one emotion: 0.0, then += probs.get(emotion, 0.0) * weight
\* for each collected modality
RECURSIVE FusedProb(_, _, _, _)
FusedProb(names, results, normalized, emotion) ==
    IF names = <<>> THEN Rat(0, 1)
    ELSE LET m == names[Len(names)]
             rest == SubSeq(names, 1, Len(names) - 1)
         IN  RatAdd(FusedProb(rest, results, normalized, emotion),
                    RatMul(Rat(results[m].probabilities[emotion], ProbUnits),
                           normalized[m]))

\* Mutant of MaxKey: on a tie the later key wins.
RECURSIVE MaxKeyLastWins(_, _, _)
MaxKeyLastWins(keys, best, probs) ==
    IF keys = <<>> THEN best
    ELSE MaxKeyLastWins(Tail(keys),
                        IF RatLess(probs[Head(keys)], probs[best]) THEN best ELSE Head(keys),
                        probs)

\* max(fused_probs, key=fused_probs.get), line 69: the dict is walked in
\* insertion order and a later key wins only when strictly greater.
RECURSIVE MaxKey(_, _, _)
MaxKey(keys, best, probs) ==
    IF keys = <<>> THEN best
    ELSE MaxKey(Tail(keys),
                IF RatLess(probs[best], probs[Head(keys)]) THEN Head(keys) ELSE best,
                probs)

TopEmotion(probs) == MaxKey(Tail(CANONICAL_EMOTIONS), Head(CANONICAL_EMOTIONS), probs)

\* Mutant of NeutralFallback: the except branch lets the error out.
NeutralFallbackRaises ==
    [emotion_fused |-> "neutral", confidence |-> Rat(1, 2),
     probabilities |-> [e \in Emotions |-> Rat(1, 6)],
     modalities_used |-> <<>>, weights |-> <<>>, raised |-> "ValueError"]

\* lines 80-89: the value returned from the except branch
NeutralFallback ==
    [emotion_fused |-> "neutral", confidence |-> Rat(1, 2),
     probabilities |-> [e \in Emotions |-> Rat(1, 6)],
     modalities_used |-> <<>>, weights |-> <<>>, raised |-> None]

\* lines 68-78: the dict returned on the normal path
FusionResult(top_emotion, fused_probs, available_modalities, normalized_weights) ==
    [emotion_fused |-> top_emotion,
     confidence |-> fused_probs[top_emotion],
     probabilities |-> fused_probs,
     modalities_used |-> available_modalities,
     weights |-> normalized_weights,
     raised |-> None]

\* lines 61-78: the weighted average and the result built from it
WeightedAverage(available_modalities, results, normalized_weights, fused_probs) ==
    FusionResult(TopEmotion(fused_probs), fused_probs, available_modalities,
                 normalized_weights)

\* lines 57-66: normalise the weights, then average
NormalizeAndFuse(available_modalities, results, weights, total_weight) ==
    LET normalized_weights ==
            [m \in Range(available_modalities) |->
                NormalizedWeight(WeightOf(weights, m), total_weight)]
    IN  WeightedAverage(available_modalities, results, normalized_weights,
            [e \in Emotions |->
                FusedProb(available_modalities, results, normalized_weights, e)])

\* EmotionFusion.late_fusion
late_fusion(face_result, speech_result, text_result, weights_arg) ==
    LET results == [face |-> face_result, speech |-> speech_result,
                    text |-> text_result]
        weights == EffectiveWeights(weights_arg)
        available_modalities == AvailableModalities(results)
        total_weight == SumWeights(available_modalities, weights)
    IN  IF Len(available_modalities) = 0
        THEN NeutralFallback                 \* ValueError, caught at line 80
        ELSE IF total_weight = 0
        THEN NeutralFallback                 \* ZeroDivisionError, caught at line 80
        ELSE NormalizeAndFuse(available_modalities, results, weights, total_weight)

(***************************************************************************)
(* Inputs of the fusion                                                    *)
(***************************************************************************)
\* k units on label a, the rest on label b
Mix(a, b, k) ==
    [e \in Emotions |-> IF e = a THEN k ELSE IF e = b THEN ProbUnits - k ELSE 0]

\* the probability vectors the detectors hand over, each summing to 1: all
\* the mass on one label, or split between happy and sad
ProbVectors ==
    {Mix(e, e, ProbUnits) : e \in Emotions} \cup
    {Mix("happy", "sad", k) : k \in 0..ProbUnits}

ModalityResults == {NoneResult, NoProbsResult} \cup {ProbsResult(v) : v \in ProbVectors}

\* caller weights, in tenths: None, or a dict over some of the modalities
WeightValues == {0, 1}
NoneWeights == [is_none |-> TRUE, map |-> <<>>]
WeightArgs ==
    {NoneWeights} \cup
    UNION {{[is_none |-> FALSE, map |-> f] : f \in [ks -> WeightValues]} :
              ks \in SUBSET Range(MODALITIES)}

NoFusionIn == [face |-> NoneResult, speech |-> NoneResult, text |-> NoneResult,
               weights |-> NoneWeights]
NoFusionOut == [called |-> FALSE, result |-> NeutralFallback]

\* a call of late_fusion on the chosen arguments
LateFusion ==
    /\ fusion_out' = [called |-> TRUE,
                      result |-> late_fusion(fusion_in.face, fusion_in.speech,
                                             fusion_in.text, fusion_in.weights)]
    /\ UNCHANGED <<playlist_df, sp, rec_call, fetch_call, stats_call, reader,
                   fusion_in, default_weights, detect_call,
                   loaded, http_call>>

(***************************************************************************)
(* The detectors: models/face_emotion.py, models/speech_emotion.py and     *)
(* models/text_emotion.py.  Raw scores are integers in tenths.             *)
(***************************************************************************)
\* {e: 1/6 for e in CANONICAL_EMOTIONS}
UniformProbs == [e \in Emotions |-> Rat(1, 6)]

\* sum(d.values()) for a dict over the six labels
SumValues(d) ==
    d["happy"] + d["sad"] + d["angry"] + d["calm"] + d["neutral"] + d["excited"]

\* `if total > 0: {k: v/total ...}`, and the dict left as it is otherwise;
\* unit is the denominator the unnormalised values are held in
NormalizeIfPositive(d, unit) ==
    IF SumValues(d) > 0 THEN [e \in Emotions |-> Rat(d[e], SumValues(d))]
    ELSE [e \in Emotions |-> Rat(d[e], unit)]

\* deepface_emotions.get(label, 0.0)
GetScore(raw, label) == IF label \in DOMAIN raw THEN raw[label] ELSE 0

\* FaceEmotionDetector.map_emotions, lines 38-62; values in hundredths
map_emotions(deepface_emotions) ==
    LET neutral == 10 * GetScore(deepface_emotions, "neutral")
        high == neutral > 40
        mapped ==
            [happy   |-> 10 * GetScore(deepface_emotions, "happy"),
             sad     |-> 10 * GetScore(deepface_emotions, "sad")
                         + 5 * GetScore(deepface_emotions, "fear"),
             angry   |-> 10 * GetScore(deepface_emotions, "angry")
                         + 5 * GetScore(deepface_emotions, "disgust"),
             calm    |-> IF high THEN (neutral * 4) \div 10 ELSE 0,
             neutral |-> IF high THEN (neutral * 6) \div 10 ELSE neutral,
             excited |-> 10 * GetScore(deepface_emotions, "surprise")]
    IN  NormalizeIfPositive(mapped, 100)

\* FaceEmotionDetector.predict, lines 64-120: the vector of the returned dict
FacePredictProbs(kind, raw) ==
    IF kind = "analysed" THEN map_emotions(raw) ELSE UniformProbs

\* TextEmotionDetector.EMOTION_MAPPING.get(label, 'neutral')
EMOTION_MAPPING ==
    [joy |-> "happy", happiness |-> "happy", love |-> "happy",
     sadness |-> "sad", sad |-> "sad", anger |-> "angry", angry |-> "angry",
     fear |-> "calm", surprise |-> "excited", neutral |-> "neutral",
     disgust |-> "angry"]
CanonicalOf(label) ==
    IF label \in DOMAIN EMOTION_MAPPING THEN EMOTION_MAPPING[label] ELSE "neutral"

\* the score map_to_canonical adds up under one canonical label
RECURSIVE ScoreUnder(_, _, _)
ScoreUnder(labels, outputs, emotion) ==
    IF labels = {} THEN 0
    ELSE LET label == CHOOSE l \in labels : TRUE
         IN  (IF CanonicalOf(label) = emotion THEN outputs[label] ELSE 0)
             + ScoreUnder(labels \ {label}, outputs, emotion)

\* TextEmotionDetector.map_to_canonical, lines 42-58
map_to_canonical(model_outputs) ==
    NormalizeIfPositive(
        [e \in Emotions |-> ScoreUnder(DOMAIN model_outputs, model_outputs, e)], 10)

\* the keyword lists of fallback_predict, lines 98-102
KeywordLists ==
    [happy   |-> {"happy", "joy", "excited", "love", "great", "wonderful",
                  "amazing", "fantastic"},
     sad     |-> {"sad", "depressed", "unhappy", "miserable", "down", "blue",
                  "gloomy"},
     angry   |-> {"angry", "mad", "furious", "annoyed", "irritated",
                  "frustrated"},
     calm    |-> {"calm", "peaceful", "relaxed", "serene", "tranquil", "chill"},
     excited |-> {"excited", "energetic", "pumped", "hyped", "thrilled"}]

\* the keywords that occur as substrings of each word a text is made of
KeywordsIn ==
    [happy |-> {"happy"}, unhappy |-> {"happy", "unhappy"},
     excited |-> {"excited"}, furious |-> {"furious"}, calm |-> {"calm"}]

\* sum(1 for word in words if word in text_lower)
KeywordCount(words, text) ==
    Cardinality({w \in words :
        \E t \in DOMAIN text : text[t] = 1 /\ w \in KeywordsIn[t]})

\* TextEmotionDetector.fallback_predict, lines 104-114: 'neutral' scores 1,
\* so the total is never 0
fallback_predict(text) ==
    LET scores == [e \in Emotions |->
                      IF e = "neutral" THEN 1
                      ELSE KeywordCount(KeywordLists[e], text)]
    IN  [e \in Emotions |-> Rat(scores[e], SumValues(scores))]

\* TextEmotionDetector.predict, lines 60-91: the classifier's scores mapped,
\* or the keyword fallback from the except branch
TextPredictProbs(kind, raw) ==
    IF kind = "classified" THEN map_to_canonical(raw) ELSE fallback_predict(raw)

\* SpeechEmotionDetector.predict_from_features, lines 67-114; energy in
\* thousandths, zcr in hundredths, probabilities in tenths
predict_from_features(features) ==
    LET energy == features["energy"]
        tempo == features["tempo"]
        zcr == features["zcr"]
        zero == [e \in Emotions |-> 0]
        rules ==
            IF energy > 50 /\ tempo > 120
            THEN [zero EXCEPT !["excited"] = 4, !["angry"] = 2, !["happy"] = 2]
            ELSE IF energy < 30 /\ tempo < 100
            THEN [zero EXCEPT !["sad"] = 3, !["calm"] = 3, !["neutral"] = 2]
            ELSE IF energy > 40 /\ 100 <= tempo /\ tempo <= 130
            THEN [zero EXCEPT !["happy"] = 4, !["excited"] = 2, !["neutral"] = 2]
            ELSE IF energy < 40 /\ 90 <= tempo /\ tempo <= 120
            THEN [zero EXCEPT !["calm"] = 4, !["neutral"] = 3, !["sad"] = 1]
            ELSE zero
        agitated ==
            IF zcr > 10
            THEN [rules EXCEPT !["angry"] = @ + 1, !["excited"] = @ + 1]
            ELSE rules
        probs ==
            IF SumValues(agitated) < 5 THEN [agitated EXCEPT !["neutral"] = 5]
            ELSE agitated
    IN  IF SumValues(probs) > 0
        THEN [e \in Emotions |-> Rat(probs[e], SumValues(probs))]
        ELSE UniformProbs

\* SpeechEmotionDetector.predict, lines 125-149
SpeechPredictProbs(kind, raw) ==
    IF kind = "features" THEN predict_from_features(raw) ELSE UniformProbs

\* Inputs of the detectors
ScoreValues == {0, 2, 5}
FaceLabels == {"angry", "disgust", "fear", "happy", "sad", "surprise", "neutral"}
TextLabels == {"anger", "disgust", "fear", "joy", "neutral", "sadness", "surprise",
               "other"}
NoRaw == [l \in {} |-> 0]
FaceInputs ==
    {[detector |-> "face", kind |-> "analysed", raw |-> r] :
        r \in [FaceLabels -> ScoreValues]}
    \cup {[detector |-> "face", kind |-> k, raw |-> NoRaw] :
             k \in {"no_face", "decode_error"}}
TextInputs ==
    {[detector |-> "text", kind |-> "classified", raw |-> r] :
        r \in [TextLabels -> ScoreValues]}
    \cup {[detector |-> "text", kind |-> "fallback", raw |-> r] :
             r \in [DOMAIN KeywordsIn -> {0, 1}]}
SpeechInputs ==
    {[detector |-> "speech", kind |-> "features",
      raw |-> [energy |-> en, tempo |-> t, zcr |-> z]] :
        en \in {20, 35, 45, 60}, t \in {80, 95, 110, 125, 140}, z \in {5, 20}}
    \cup {[detector |-> "speech", kind |-> "error", raw |-> NoRaw]}

NoDetect == [called |-> FALSE, detector |-> "face", kind |-> "no_face",
             raw |-> NoRaw, probabilities |-> UniformProbs]

\* one call of a detector on the chosen input
Detect(detector, probabilities) ==
    /\ detect_call.detector = detector
    /\ ~detect_call.called
    /\ detect_call' = [detect_call EXCEPT !.called = TRUE,
                                          !.probabilities = probabilities]
    /\ UNCHANGED <<playlist_df, sp, rec_call, fetch_call, stats_call, reader,
                   fusion_in, fusion_out, default_weights, loaded, http_call>>

FacePredict == Detect("face", FacePredictProbs(detect_call.kind, detect_call.raw))
SpeechPredict == Detect("speech", SpeechPredictProbs(detect_call.kind, detect_call.raw))
TextPredict == Detect("text", TextPredictProbs(detect_call.kind, detect_call.raw))

(***************************************************************************)
(* main.py: the routes and the status each sends                           *)
(***************************************************************************)
\* the globals of lines 36-40
Components == {"face_detector", "speech_detector", "fusion_module", "spotify_handler"}
AllLoaded == [c \in Components |-> TRUE]

\* the routes whose handler raises an HTTPException of its own
Endpoints == {"/predict/face", "/predict/speech", "/fuse", "/recommend",
              "/playlist/stats", "/setup/fetch-playlist"}

\* `except HTTPException: raise` stands before `except Exception` in
\* recommend_song only (lines 193-194)
ReraisesHTTPException(endpoint) == endpoint = "/recommend"

\* The status sent for what the try block did: raised is 0 when the block
\* returned, else the status_code of the HTTPException it raised; without
\* the re-raise, `except Exception` catches it and raises a 500 in its place.
ResponseStatus(endpoint, raised) ==
    IF raised = 0 THEN 200
    ELSE IF ReraisesHTTPException(endpoint) THEN raised
    ELSE 500

\* `if <component> is None: raise HTTPException(status_code=503, ...)`
NotLoaded(component) == IF loaded[component] THEN 0 ELSE 503

NoHttp == [called |-> FALSE, endpoint |-> "/health", raised |-> 0, status |-> 0]
ServerIdle ==
    /\ loaded = AllLoaded
    /\ http_call = NoHttp

\* the response of a handler that leaves the state of the components alone
Respond(endpoint, raised) ==
    /\ http_call' = [called |-> TRUE, endpoint |-> endpoint, raised |-> raised,
                     status |-> ResponseStatus(endpoint, raised)]
    /\ UNCHANGED <<sp, rec_call, fetch_call, stats_call, reader, fusion_in,
                   fusion_out, default_weights, detect_call, loaded>>

\* POST /predict/face, lines 131-143: predict() returns a dict on every input
PredictFaceEmotion ==
    /\ Respond("/predict/face", NotLoaded("face_detector"))
    /\ UNCHANGED playlist_df

\* POST /predict/speech, lines 145-155
PredictSpeechEmotion ==
    /\ Respond("/predict/speech", NotLoaded("speech_detector"))
    /\ UNCHANGED playlist_df

\* POST /fuse, lines 159-176: late_fusion returns a dict on every input
FuseEmotions(strategy) ==
    /\ Respond("/fuse",
               IF ~loaded["fusion_module"] THEN 503
               ELSE IF strategy = "late" THEN 0
               ELSE 400)
    /\ UNCHANGED playlist_df

\* POST /recommend, lines 178-197, the handler loaded or not
HttpRecommendSong(emotion, current_song_id) ==
    /\ IF ~loaded["spotify_handler"]
       THEN Respond("/recommend", 503)
       ELSE \E out \in recommend_by_emotion(playlist_df, emotion, current_song_id) :
               Respond("/recommend", IF out.song.is_none THEN 404 ELSE 0)
    /\ UNCHANGED playlist_df

\* GET /playlist/stats, lines 207-216
HttpGetPlaylistStats ==
    /\ Respond("/playlist/stats", NotLoaded("spotify_handler"))
    /\ UNCHANGED playlist_df

\* POST /setup/fetch-playlist, lines 218-227: fetch_and_cache_playlist
\* returns a dict, 'success' or 'error', and may have stored the new rows
HttpFetchPlaylist(rows, outcome) ==
    /\ Respond("/setup/fetch-playlist", NotLoaded("spotify_handler"))
    /\ playlist_df' = IF loaded["spotify_handler"] /\ sp
                         /\ outcome \in {"ok", "write_error"}
                      THEN DataFrame(rows) ELSE playlist_df

(***************************************************************************)
(* Specifications                                                          *)
(***************************************************************************)
\* what every specification leaves at its value after construction
FusionIdle ==
    /\ fusion_in = NoFusionIn
    /\ fusion_out = NoFusionOut
DetectorsIdle == detect_call = NoDetect
CatalogueIdle ==
    /\ rec_call = NoRecommend
    /\ fetch_call = NoFetch
    /\ stats_call = NoStats
    /\ reader = IdleReader

\* The catalogue: the handler after construction, then requests.
Init ==
    /\ sp \in BOOLEAN
    /\ playlist_df \in InitialFrames
    /\ CatalogueIdle
    /\ ServerIdle
    /\ default_weights = InitialDefaultWeights
    /\ FusionIdle
    /\ DetectorsIdle

Next ==
    \/ \E emotion \in RequestEmotions, id \in RequestSongIds :
          RecommendSong(emotion, id)
    \/ GetPlaylistStats
    \/ \E rows \in Snapshots, outcome \in {"ok", "fetch_error", "write_error"} :
          FetchAndCachePlaylist(rows, outcome)

Spec == Init /\ [][Next]_vars

\* The fusion as a pure function: arguments drawn in the initial state.
InitFusion ==
    /\ sp = FALSE
    /\ playlist_df = NoneDF
    /\ CatalogueIdle
    /\ ServerIdle
    /\ default_weights = InitialDefaultWeights
    /\ fusion_in \in [face : ModalityResults, speech : ModalityResults,
                      text : ModalityResults, weights : WeightArgs]
    /\ fusion_out = NoFusionOut
    /\ DetectorsIdle

NextFusion == LateFusion

SpecFusion == InitFusion /\ [][NextFusion]_vars

\* The detectors as pure functions: the input drawn in the initial state.
InitDetect ==
    /\ sp = FALSE
    /\ playlist_df = NoneDF
    /\ CatalogueIdle
    /\ ServerIdle
    /\ default_weights = InitialDefaultWeights
    /\ FusionIdle
    /\ \E input \in FaceInputs \cup TextInputs \cup SpeechInputs :
          detect_call = [called |-> FALSE, detector |-> input.detector,
                         kind |-> input.kind, raw |-> input.raw,
                         probabilities |-> UniformProbs]

NextDetect == FacePredict \/ SpeechPredict \/ TextPredict

SpecDetect == InitDetect /\ [][NextDetect]_vars

\* A reader thread beside a refresh thread: the steps of recommend_by_emotion
\* interleave with whole calls of fetch_and_cache_playlist, whose only write
\* to self.playlist_df is the assignment of line 201.
ConcurrentSnapshots == {rows \in Snapshots : Range(rows) \subseteq
                           {TrackUniverse[1], TrackUniverse[2]}}

InitConcurrent ==
    /\ sp = TRUE
    /\ playlist_df \in {NoneDF} \cup {DataFrame(rows) : rows \in ConcurrentSnapshots}
    /\ CatalogueIdle
    /\ ServerIdle
    /\ default_weights = InitialDefaultWeights
    /\ FusionIdle
    /\ DetectorsIdle

NextConcurrent ==
    \/ \E emotion \in {"happy", "sad"}, id \in {None, "A"} :
          ReaderCheck(emotion, id)
    \/ ReaderFilter
    \/ ReaderPick
    \/ \E rows \in ConcurrentSnapshots, outcome \in {"ok", "fetch_error", "write_error"} :
          FetchAndCachePlaylist(rows, outcome)

SpecConcurrent == InitConcurrent /\ [][NextConcurrent]_vars

\* Reads and fusion calls in one run, with few arguments for the fusion.
FrameFusionInputs ==
    {[face |-> f, speech |-> NoProbsResult, text |-> NoneResult, weights |-> w] :
        f \in {NoneResult, ProbsResult(Mix("happy", "sad", 1))},
        w \in {[is_none |-> FALSE, map |-> [face |-> 1]]}}

InitFrame ==
    /\ sp \in BOOLEAN
    /\ playlist_df \in InitialFrames
    /\ CatalogueIdle
    /\ ServerIdle
    /\ default_weights = InitialDefaultWeights
    /\ fusion_in \in FrameFusionInputs
    /\ fusion_out = NoFusionOut
    /\ DetectorsIdle

NextFrame == Next \/ LateFusion

SpecFrame == InitFrame /\ [][NextFrame]_vars

\* The server after load_models, any of the four components possibly left
\* None by a failed constructor; then requests.
HttpSnapshots == {rows \in Snapshots : Range(rows) \subseteq {TrackUniverse[1]}}

InitHttp ==
    /\ loaded \in [Components -> BOOLEAN]
    /\ sp \in (IF loaded["spotify_handler"] THEN BOOLEAN ELSE {FALSE})
    /\ playlist_df \in (IF loaded["spotify_handler"]
                        THEN {NoneDF} \cup {DataFrame(rows) : rows \in HttpSnapshots}
                        ELSE {NoneDF})
    /\ CatalogueIdle
    /\ http_call = NoHttp
    /\ default_weights = InitialDefaultWeights
    /\ FusionIdle
    /\ DetectorsIdle

NextHttp ==
    \/ PredictFaceEmotion
    \/ PredictSpeechEmotion
    \/ \E strategy \in {"late", "early"} : FuseEmotions(strategy)
    \/ \E emotion \in {"happy", "sad"}, id \in {None, "A"} :
          HttpRecommendSong(emotion, id)
    \/ HttpGetPlaylistStats
    \/ \E rows \in HttpSnapshots, outcome \in {"ok", "fetch_error", "write_error"} :
          HttpFetchPlaylist(rows, outcome)

SpecHttp == InitHttp /\ [][NextHttp]_vars

(***************************************************************************)
(* Properties of late_fusion (checked under SpecFusion)                    *)
(***************************************************************************)
\* What the properties read off the arguments, written without the
\* operators of the model.
DocumentedWeights == [face |-> 4, speech |-> 3, text |-> 3]

UsableInputs == {m \in {"face", "speech", "text"} : fusion_in[m].kind = "probs"}

InputWeight(m) ==
    IF fusion_in.weights.is_none THEN DocumentedWeights[m]
    ELSE IF m \in DOMAIN fusion_in.weights.map THEN fusion_in.weights.map[m]
    ELSE DocumentedWeights[m]

UsedWeight(m) == IF m \in UsableInputs THEN InputWeight(m) ELSE 0
UsedWeightTotal == UsedWeight("face") + UsedWeight("speech") + UsedWeight("text")

\* the probability vector a usable modality handed in (units of 1/ProbUnits)
InputProb(m, e) == IF m \in UsableInputs THEN fusion_in[m].probabilities[e] ELSE 0

Fused == fusion_out.result

Labels == {"happy", "sad", "angry", "calm", "neutral", "excited"}

\* the position of a label in happy, sad, angry, calm, neutral, excited
CanonicalRank(e) ==
    CASE e = "happy" -> 1 [] e = "sad" -> 2 [] e = "angry" -> 3
      [] e = "calm" -> 4 [] e = "neutral" -> 5 [] e = "excited" -> 6

\* the six returned probabilities added up
ProbabilitySum ==
    LET p == Fused.probabilities
    IN  RatAdd(p["happy"], RatAdd(p["sad"], RatAdd(p["angry"],
            RatAdd(p["calm"], RatAdd(p["neutral"], p["excited"])))))

\* C1: whenever at least one of face/speech/text carries a usable probability
\* vector (each input vector sums to 1), for every choice of non-negative
\* weights the returned probabilities over the six labels sum to 1.
C1_FusedSumsToOne ==
    (fusion_out.called /\ UsableInputs # {}) =>
        RatEq(ProbabilitySum, [num |-> 1, den |-> 1])

\* C1 witness: two modalities fused under caller weights that are not equal
\* and do not add up to the default total.
C1_Witness ==
    /\ fusion_out.called
    /\ UsableInputs = {"face", "text"}
    /\ ~fusion_in.weights.is_none
    /\ Len(Fused.modalities_used) = 2
    /\ InputWeight("face") = 1 /\ InputWeight("text") = 3

\* the neutral result of the except branch, spelled out
IsNeutralFallback(r) ==
    /\ r.emotion_fused = "neutral"
    /\ RatEq(r.confidence, [num |-> 1, den |-> 2])
    /\ \A e \in Labels : RatEq(r.probabilities[e], [num |-> 1, den |-> 6])
    /\ r.modalities_used = <<>>
    /\ DOMAIN r.weights = {}

C6_SingleContributionUnchanged ==
    (fusion_out.called /\ Cardinality(UsableInputs) = 1) =>
        LET m == CHOOSE x \in UsableInputs : TRUE
        IN  /\ Fused.modalities_used = <<m>>
            /\ DOMAIN Fused.weights = {m}
            /\ RatEq(Fused.weights[m], [num |-> 1, den |-> 1])
            /\ \A e \in Labels :
                  RatEq(Fused.probabilities[e],
                        [num |-> fusion_in[m].probabilities[e], den |-> ProbUnits])

(***************************************************************************)
(* Properties of recommend_by_emotion and /recommend (checked under Spec)  *)
(***************************************************************************)
\* The snapshot the request just served was answered from.
SnapshotRows == {playlist_df.rows[i] : i \in 1..Len(playlist_df.rows)}

\* the track the request asked to leave out, if any
Excluding == rec_call.current_song_id \notin {"None", ""}
OtherRows == {r \in SnapshotRows : ~(Excluding /\ r.track_id = rec_call.current_song_id)}

\* the ranges of the requested label, neutral for an unknown label
RequestedRanges ==
    IF rec_call.emotion \in Labels THEN EMOTION_CRITERIA[rec_call.emotion]
    ELSE EMOTION_CRITERIA["neutral"]

\* valence and energy both inside the inclusive ranges; a missing value is in none
Eligible(v, e) ==
    /\ v >= 0 /\ e >= 0
    /\ RequestedRanges.valence[1] <= v /\ v <= RequestedRanges.valence[2]
    /\ RequestedRanges.energy[1] <= e /\ e <= RequestedRanges.energy[2]

ReturnedSong == rec_call.song
ReturnedFromSnapshot ==
    /\ ~ReturnedSong.is_none
    /\ \E r \in SnapshotRows :
          /\ r.track_id = ReturnedSong.song_id
          /\ r.valence = ReturnedSong.valence
          /\ r.energy = ReturnedSong.energy

\* C3 as stated: when the snapshot holds at least one entry other than the
\* excluded track, the excluded track is never the one returned.
C3_NeverReturnsExcluded ==
    (rec_call.called /\ Excluding /\ OtherRows # {}) =>
        (ReturnedSong.is_none \/ ReturnedSong.song_id # rec_call.current_song_id)

\* C7: when some entry other than the excluded track has valence and energy
\* inside the requested label's inclusive ranges, the call returns an entry
\* of the snapshot that is inside both ranges and is not the excluded track.
C7_ReturnsEligibleEntry ==
    (rec_call.called /\ \E r \in OtherRows : Eligible(r.valence, r.energy)) =>
        /\ ReturnedFromSnapshot
        /\ Eligible(ReturnedSong.valence, ReturnedSong.energy)
        /\ ~(Excluding /\ ReturnedSong.song_id = rec_call.current_song_id)
        /\ rec_call.status = 200

\* C7 witness: A(0.8,0.8), B(0.1,0.1), C(0.5,0.5) asked for 'sad' with no
\* exclusion answers B.
C7_Witness ==
    /\ rec_call.called
    /\ {r.track_id : r \in SnapshotRows} = {"A", "B", "C"}
    /\ rec_call.emotion = "sad"
    /\ rec_call.current_song_id = "None"
    /\ ReturnedSong.song_id = "B"

\* C8 as stated: against a snapshot whose only entry is the excluded track
\* the call fails (no song, 404) and does not return the excluded track.
C8_OnlyExcludedTrackFails ==
    (rec_call.called /\ Excluding /\ SnapshotRows # {} /\ OtherRows = {}) =>
        (ReturnedSong.is_none /\ rec_call.status = 404)

\* C9: on an empty or never-loaded snapshot the call returns no entry, for
\* every label and excluded id, and /recommend answers 404 after that one
\* call (nothing but the not-loaded warning was logged).
C9_EmptySnapshotNoSong ==
    (rec_call.called /\ (playlist_df.is_none \/ Len(playlist_df.rows) = 0)) =>
        /\ ReturnedSong.is_none
        /\ rec_call.status = 404
        /\ rec_call.log = {"Playlist not loaded"}

\* C9 witness: a request with an excluded id against a loaded but empty frame.
C9_Witness ==
    /\ rec_call.called
    /\ ~playlist_df.is_none /\ Len(playlist_df.rows) = 0
    /\ rec_call.emotion = "happy"
    /\ rec_call.current_song_id = "A"
    /\ rec_call.status = 404

\* C10: when no entry satisfies the requested label's ranges but the
\* snapshot holds a track, the call still returns an entry of the snapshot,
\* and the fallback warning is logged exactly when the fallback is taken,
\* that is when no entry other than the excluded one satisfies the ranges.
C10_DegradedMatchLogged ==
    (rec_call.called /\ SnapshotRows # {}) =>
        /\ (~\E r \in SnapshotRows : Eligible(r.valence, r.energy)) =>
              (ReturnedFromSnapshot /\ rec_call.status = 200)
        /\ (FallbackWarning \in rec_call.log) <=>
              (~\E r \in OtherRows : Eligible(r.valence, r.energy))

\* C10 witness: 'happy' asked of a snapshot holding only B(0.1,0.1) answers
\* B and logs the warning.
C10_Witness ==
    /\ rec_call.called
    /\ {r.track_id : r \in SnapshotRows} = {"B"}
    /\ rec_call.emotion = "happy"
    /\ rec_call.current_song_id = "None"
    /\ ReturnedSong.song_id = "B"
    /\ FallbackWarning \in rec_call.log

(***************************************************************************)
(* Properties of get_playlist_stats, of the reads as a whole and of        *)
(* fetch_and_cache_playlist                                                *)
(***************************************************************************)
Stats == stats_call.result

\* a row with its valence or its energy missing
Incomplete(r) == r.valence < 0 \/ r.energy < 0

\* the rows of the snapshot with both values present and inside the
\* inclusive ranges of a label
RowsInRange(label) ==
    {r \in SnapshotRows :
        /\ ~Incomplete(r)
        /\ EMOTION_CRITERIA[label].valence[1] <= r.valence
        /\ r.valence <= EMOTION_CRITERIA[label].valence[2]
        /\ EMOTION_CRITERIA[label].energy[1] <= r.energy
        /\ r.energy <= EMOTION_CRITERIA[label].energy[2]}

\* C11 as stated: a recommend_by_emotion call running beside a refresh
\* computes its whole result from one snapshot, the complete old one or the
\* complete new one: what it returns and logs is what the call would have
\* returned and logged had it run alone on one of the frames it read.
C11_ReaderSeesOneSnapshot ==
    (reader.pc = "done") =>
        \E i \in 1..Len(reader.reads) :
            [song |-> reader.song, log |-> reader.log]
                \in recommend_by_emotion(reader.reads[i], reader.emotion,
                                         reader.current_song_id)

\* C12 as stated: on an empty or never-loaded snapshot get_playlist_stats
\* returns total_songs 0, total_duration_hours 0, every average (valence,
\* energy, tempo) 0 and cached false.
C12_EmptyStatsAllZero ==
    (stats_call.called /\ (playlist_df.is_none \/ Len(playlist_df.rows) = 0)) =>
        /\ Stats.total_songs = 0
        /\ Stats.total_duration_hours = 0
        /\ Stats.average_valence.num = 0
        /\ Stats.average_energy.num = 0
        /\ "average_tempo" \in DOMAIN Stats
        /\ Stats.average_tempo.num = 0
        /\ Stats.cached = FALSE

\* C13: an entry whose valence or energy is missing is never picked from the
\* mood-filtered candidates of recommend_by_emotion (a song returned without
\* the fallback warning has both values), is counted in no bucket of
\* mood_distribution, and a snapshot holding such an entry makes neither
\* call report an error.
C13_MissingValuesNeverMatch ==
    /\ (rec_call.called /\ ~ReturnedSong.is_none
            /\ FallbackWarning \notin rec_call.log) =>
          (ReturnedSong.valence >= 0 /\ ReturnedSong.energy >= 0)
    /\ (stats_call.called /\ SnapshotRows # {}) =>
          \A l \in Labels :
              Stats.mood_distribution[l] <=
                  Cardinality({r \in SnapshotRows : ~Incomplete(r)})
              /\ Stats.mood_distribution[l] = Cardinality(RowsInRange(l))
    /\ (rec_call.called /\ \E r \in SnapshotRows : Incomplete(r)) =>
          /\ ~ReturnedSong.is_none
          /\ rec_call.status = 200
          /\ "Recommendation error" \notin rec_call.log
    /\ (stats_call.called /\ \E r \in SnapshotRows : Incomplete(r)) =>
          /\ "error" \notin DOMAIN Stats
          /\ Stats.cached

\* C13 witness: statistics of a snapshot holding A(0.8,0.8) and E(missing
\* valence, energy 0.8): two songs, E in no bucket ('angry' counts 0).
C13_Witness ==
    /\ stats_call.called
    /\ {r.track_id : r \in SnapshotRows} = {"A", "E"}
    /\ Stats.total_songs = 2
    /\ Stats.mood_distribution["angry"] = 0
    /\ Stats.mood_distribution["excited"] = 1

\* C14: for a non-empty snapshot mood_distribution holds one count per
\* canonical label, the number of entries whose valence and energy both lie
\* in that label's inclusive ranges, each label counted on its own; an entry
\* inside several ranges is counted under each of them.
C14_MoodDistributionCounts ==
    (stats_call.called /\ SnapshotRows # {}) =>
        /\ DOMAIN Stats.mood_distribution = Labels
        /\ Stats.total_songs = Cardinality(SnapshotRows)
        /\ \A l \in Labels :
              Stats.mood_distribution[l] = Cardinality(RowsInRange(l))

\* C14 witness: the one-song snapshot A(0.8,0.8) is counted under 'happy'
\* and under 'excited', so the counts add up to more than total_songs.
C14_Witness ==
    /\ stats_call.called
    /\ {r.track_id : r \in SnapshotRows} = {"A"}
    /\ Stats.total_songs = 1
    /\ Stats.mood_distribution["happy"] = 1
    /\ Stats.mood_distribution["excited"] = 1

\* C15: a label that is not one of the six is filtered with the 'neutral'
\* ranges ([0.3, 0.7] for valence and for energy), and the call can return
\* and log exactly what the same call with label 'neutral' can.
C15_UnknownLabelIsNeutral ==
    (rec_call.called /\ rec_call.emotion \notin Labels) =>
          /\ [song |-> rec_call.song, log |-> rec_call.log]
                \in recommend_by_emotion(playlist_df, "neutral",
                                         rec_call.current_song_id)
          /\ (~ReturnedSong.is_none /\ FallbackWarning \notin rec_call.log) =>
                /\ 3 <= ReturnedSong.valence /\ ReturnedSong.valence <= 7
                /\ 3 <= ReturnedSong.energy /\ ReturnedSong.energy <= 7
          /\ (FallbackWarning \in rec_call.log) <=>
                /\ SnapshotRows # {}
                /\ ~\E r \in OtherRows :
                      /\ 3 <= r.valence /\ r.valence <= 7
                      /\ 3 <= r.energy /\ r.energy <= 7
          /\ recommend_by_emotion(playlist_df, rec_call.emotion,
                                  rec_call.current_song_id)
                = recommend_by_emotion(playlist_df, "neutral",
                                       rec_call.current_song_id)

\* C15 witness: 'surprised' asked of A(0.8,0.8), C(0.5,0.5) answers C, the
\* only entry inside the neutral ranges, without the fallback.
C15_Witness ==
    /\ rec_call.called
    /\ rec_call.emotion = "surprised"
    /\ {r.track_id : r \in SnapshotRows} = {"A", "C"}
    /\ ReturnedSong.song_id = "C"
    /\ FallbackWarning \notin rec_call.log

\* C16: a step that is a late_fusion, recommend_by_emotion or
\* get_playlist_stats call leaves the current snapshot, the client, the
\* fusion's default weights and the arguments of the fusion as they were.
C16_ReadsLeaveStateUnchanged ==
    [][(rec_call'.called \/ stats_call'.called
            \/ (fusion_out'.called /\ ~fusion_out.called)) =>
          /\ playlist_df' = playlist_df
          /\ sp' = sp
          /\ default_weights' = default_weights
          /\ default_weights = [face |-> 4, speech |-> 3, text |-> 3]
          /\ fusion_in' = fusion_in]_vars

\* C16 witness: after a fusion call and a statistics call the snapshot still
\* holds its three songs A, B, C, of which no label's ranges hold all.
C16_Witness ==
    /\ fusion_out.called
    /\ stats_call.called
    /\ [i \in 1..Len(playlist_df.rows) |-> playlist_df.rows[i].track_id]
          = <<"A", "B", "C">>
    /\ Stats.mood_distribution["excited"] = 1

\* C20 as stated: whenever fetch_and_cache_playlist returns status 'error'
\* the snapshot is the one held before the call.
C20_ErrorLeavesSnapshot ==
    (fetch_call.called /\ fetch_call.status = "error") =>
        playlist_df = fetch_call.before

(***************************************************************************)
(* Further properties of late_fusion (checked under SpecFusion)            *)
(***************************************************************************)
\* the usable modalities in the order face, speech, text
UsableInOrder ==
    SelectSeq(<<"face", "speech", "text">>, LAMBDA m : m \in UsableInputs)

\* C17 as stated: when at least one supplied result is usable, the absent
\* and unusable results are discarded and the rest fused: modalities_used
\* lists exactly the usable modalities in the order face, speech, text,
\* weights has exactly those keys, and the call is not the neutral fallback.
C17_UsableModalitiesFused ==
    (fusion_out.called /\ UsableInputs # {}) =>
        /\ Fused.modalities_used = UsableInOrder
        /\ DOMAIN Fused.weights = UsableInputs
        /\ ~IsNeutralFallback(Fused)

\* C19: the weights of the modalities used stand to one another as the
\* weights applied: the caller's where the mapping has the modality, the
\* documented default (face 0.4, speech 0.3, text 0.3) where the mapping is
\* absent or lacks it; together they are the whole.
C19_CallerWeightOrDefault ==
    fusion_out.called =>
        /\ \A m1, m2 \in Range(Fused.modalities_used) :
              Fused.weights[m1].num * Fused.weights[m2].den * InputWeight(m2)
                  = Fused.weights[m2].num * Fused.weights[m1].den * InputWeight(m1)
        /\ \A m \in Range(Fused.modalities_used) :
              /\ m \in UsableInputs
              /\ Fused.weights[m].num * UsedWeightTotal
                    = InputWeight(m) * Fused.weights[m].den

\* C19 witness: weights={'face': 0.1} with face and speech usable: speech
\* takes its default 0.3, so the shares are 1/4 and 3/4.
C19_Witness ==
    /\ fusion_out.called
    /\ ~fusion_in.weights.is_none
    /\ DOMAIN fusion_in.weights.map = {"face"}
    /\ fusion_in.weights.map["face"] = 1
    /\ UsableInputs = {"face", "speech"}
    /\ RatEq(Fused.weights["face"], [num |-> 1, den |-> 4])
    /\ RatEq(Fused.weights["speech"], [num |-> 3, den |-> 4])

(***************************************************************************)
(* Properties of the detectors (checked under SpecDetect)                  *)
(***************************************************************************)
Detected == detect_call.probabilities

\* the six returned values added up
DetectedSum ==
    RatAdd(Detected["happy"], RatAdd(Detected["sad"], RatAdd(Detected["angry"],
        RatAdd(Detected["calm"], RatAdd(Detected["neutral"], Detected["excited"])))))

\* the input carries no signal: every raw score handed to a mapping is 0
AllScoresZero ==
    /\ detect_call.kind \in {"analysed", "classified"}
    /\ \A l \in DOMAIN detect_call.raw : detect_call.raw[l] = 0

\* C18 as stated: the vector a detector returns sums to 1 with every value
\* in [0, 1], and is the uniform 1/6 when all the raw scores are zero.
C18_DetectorVectorIsDistribution ==
    detect_call.called =>
        /\ DOMAIN Detected = Labels
        /\ \A e \in Labels :
              /\ Detected[e].den > 0
              /\ 0 <= Detected[e].num /\ Detected[e].num <= Detected[e].den
        /\ RatEq(DetectedSum, [num |-> 1, den |-> 1])
        /\ AllScoresZero =>
              \A e \in Labels : RatEq(Detected[e], [num |-> 1, den |-> 6])

(***************************************************************************)
(* Properties of the routes of main.py (checked under SpecHttp)            *)
(***************************************************************************)
\* C21 as stated: when a handler deliberately raises a specific HTTP status
\* (503 component not loaded, 400 strategy other than 'late', 404 no song
\* found), the client receives that status and not a generic 500, on every
\* one of the six endpoints.
C21_DeliberateStatusReachesClient ==
    (http_call.called /\ http_call.raised \in {503, 400, 404}) =>
        http_call.status = http_call.raised

====
